---- MODULE Spec2Model ----
(***************************************************************************)
(* wordpress-export-to-markdown: translation grouping (parser.js), path    *)
(* resolution, payload planning and payload execution (writer.js).         *)
(*                                                                         *)
(* Conventions of the model                                                *)
(*   - JavaScript null and undefined are the strings Null and Undefined.   *)
(*   - A path is the sequence of its segments: output/a/index.md is       *)
(*     <<"output", "a", "index.md">>.                                      *)
(*   - A JavaScript object used as a map is the sequence of its entries in *)
(*     the order Object.entries / Object.values enumerates them.           *)
(*   - Post IDs are the canonical decimal strings of natural numbers; the  *)
(*     model keeps the number and compares the decimal strings where the   *)
(*     code compares strings.                                              *)
(***************************************************************************)
EXTENDS Integers, Sequences, FiniteSets, TLC

VARIABLES
    items,      \* the <item>s kept by collectPosts, in collection order
    termDesc,   \* term_description of each post_translations <term>
    config,     \* shared.config
    posts,      \* the posts returned by parseFilePromise
    groupMap,   \* writeFilesPromise's groupMap, as Object.entries lists it
    pc,         \* position of the main flow
    phase,      \* per write phase ("md", "img"): planner result and units
    fs,         \* files of the output tree: path -> content
    dirs,       \* directories of the output tree
    fs0,        \* the output tree the run started with
    written     \* per phase, the paths its writeFile calls have written

vars == <<items, termDesc, config, posts, groupMap, pc, phase, fs, dirs, fs0, written>>

Null == "null"
Undefined == "undefined"

-----------------------------------------------------------------------------
(* Bounds and input domains *)

MaxPosts == 2

\* Defaults of --write-delay and --request-delay (milliseconds).
WriteDelay == 25
RequestDelay == 500

PostIds == {1, 2, 10}
Langs == {"en", "fr"}
Terms == {"pll_t1"}

-----------------------------------------------------------------------------
(* Generic helpers *)

Range(s) == {s[i] : i \in 1..Len(s)}

\* Decimal digits of a natural number, most significant first: String(id).
RECURSIVE Digits(_)
Digits(n) == IF n < 10 THEN <<n>> ELSE Digits(n \div 10) \o <<n % 10>>

\* a < b for sequences of code units (JavaScript's default string comparison).
RECURSIVE LexLess(_, _)
LexLess(a, b) ==
    IF b = <<>> THEN FALSE
    ELSE IF a = <<>> THEN TRUE
    ELSE IF Head(a) # Head(b) THEN Head(a) < Head(b)
    ELSE LexLess(Tail(a), Tail(b))

\* Array.prototype.sort() with no comparator on an array of ID strings.
RECURSIVE InsertSorted(_, _)
InsertSorted(x, s) ==
    IF s = <<>> THEN <<x>>
    ELSE IF LexLess(Digits(x), Digits(Head(s))) THEN <<x>> \o s
    ELSE <<Head(s)>> \o InsertSorted(x, Tail(s))

RECURSIVE SortIds(_)
SortIds(s) == IF s = <<>> THEN <<>> ELSE InsertSorted(Head(s), SortIds(Tail(s)))

\* obj[name] for a property the object may lack.
Prop(obj, name) == IF name \in DOMAIN obj THEN obj[name] ELSE Undefined

-----------------------------------------------------------------------------
(* parser.js: enrichment (parseFilePromise steps 6 and 7) *)

\* A term_description is [parsable, entries]: whether unserialize() accepts
\* it, and the <<lang, id>> entries of the array it then returns.  A
\* translationMap is [null, entries]: null, or an object with those entries.
Unparsable == [parsable |-> FALSE, entries |-> <<>>]
Description(entries) == [parsable |-> TRUE, entries |-> entries]
NullMap == [null |-> TRUE, entries |-> <<>>]

\* An image URL is [host, file]: what precedes its final path segment, and
\* that segment.  NoUrl fills the url field of what is not an image.
NoUrl == [host |-> "", file |-> ""]
MapOf(entries) == [null |-> FALSE, entries |-> entries]

\* Mutant: a term whose description cannot be parsed gets an empty map.
TermMappingsOfAll(td) == [t \in DOMAIN td |-> MapOf(td[t].entries)]

\* unserialize(rawDesc) threw: the term gets no entry in termMappings.
\* Otherwise the entry is the parsed array, IDs normalised to strings.
TermMappings(td) ==
    [t \in {u \in DOMAIN td : td[u].parsable} |-> MapOf(td[t].entries)]

\* post.polylang of one item.
Polylang(item, td) ==
    LET gs == item.groupSlug
        tm == IF gs # Null /\ gs \in DOMAIN TermMappings(td)
              THEN TermMappings(td)[gs] ELSE NullMap
    IN [language |-> item.language, groupSlug |-> gs, translationMap |-> tm]

\* The post object buildPost makes, with the polylang container attached.
EnrichPost(item, td) ==
    [id |-> item.id, slug |-> item.slug, imageUrls |-> item.imageUrls,
     polylang |-> Polylang(item, td)]

parseFilePromise(its, td) == [i \in 1..Len(its) |-> EnrichPost(its[i], td)]

-----------------------------------------------------------------------------
(* Group maps: a JavaScript object keyed by group key.  A key is the       *)
(* sequence of the IDs it joins with ",": <<7>> is "7", <<1, 2>> is "1,2". *)

\* A key that is a canonical array index ("7"): such keys are enumerated
\* first, in ascending numeric order, whatever the insertion order.
IsIndexKey(key) == Len(key) = 1

HasKey(obj, key) == \E i \in 1..Len(obj) : obj[i].key = key

\* Mutant: every key is listed in insertion order.
InsertEntryAtEnd(obj, e) == Append(obj, e)

\* Position at which Object.entries lists a key that is being added.
RECURSIVE InsertEntry(_, _)
InsertEntry(obj, e) ==
    IF obj = <<>> THEN <<e>>
    ELSE IF IsIndexKey(e.key)
            /\ (~IsIndexKey(Head(obj).key) \/ e.key[1] < Head(obj).key[1])
         THEN <<e>> \o obj
    ELSE <<Head(obj)>> \o InsertEntry(Tail(obj), e)

\* obj[key] = value
SetEntry(obj, key, value) ==
    IF HasKey(obj, key)
    THEN [i \in 1..Len(obj) |->
            IF obj[i].key = key THEN [key |-> key, posts |-> value] ELSE obj[i]]
    ELSE InsertEntry(obj, [key |-> key, posts |-> value])

\* Mutant: the group's array is reset at every post.
PushEntryReplacing(obj, key, post) ==
    [i \in 1..Len(obj) |->
        IF obj[i].key = key THEN [key |-> key, posts |-> <<post>>] ELSE obj[i]]

\* obj[key].push(post), the key being present
PushEntry(obj, key, post) ==
    [i \in 1..Len(obj) |->
        IF obj[i].key = key
        THEN [key |-> key, posts |-> Append(obj[i].posts, post)] ELSE obj[i]]

\* Object.values(tm) of a translation map.
MapValues(tm) == [i \in 1..Len(tm.entries) |-> tm.entries[i][2]]

\* Mutant: every post is keyed by its own ID.
GroupKeyOwnId(post) == <<post.id>>

\* The key buildTranslationGroups computes for one post.
GroupKeyOf(post) ==
    LET tm == post.polylang.translationMap
    IN IF ~tm.null /\ Len(tm.entries) > 0 THEN SortIds(MapValues(tm)) ELSE <<post.id>>

RECURSIVE buildTranslationGroupsFrom(_, _)
buildTranslationGroupsFrom(groups, allPosts) ==
    IF allPosts = <<>> THEN groups
    ELSE LET post == Head(allPosts)
             key == GroupKeyOf(post)
             g1 == IF HasKey(groups, key) THEN groups ELSE SetEntry(groups, key, <<>>)
         IN buildTranslationGroupsFrom(PushEntry(g1, key, post), Tail(allPosts))

buildTranslationGroups(allPosts) == buildTranslationGroupsFrom(<<>>, allPosts)

\* writeFilesPromise, polylang off: groupMap[String(post.id)] = [post]
RECURSIVE SingletonGroupsFrom(_, _)
SingletonGroupsFrom(groups, allPosts) ==
    IF allPosts = <<>> THEN groups
    ELSE SingletonGroupsFrom(SetEntry(groups, <<Head(allPosts).id>>, <<Head(allPosts)>>),
                             Tail(allPosts))

BuildGroupMap(cfg, allPosts) ==
    IF cfg.polylang THEN buildTranslationGroups(allPosts)
    ELSE SingletonGroupsFrom(<<>>, allPosts)

\* chooseBaseSlug(postsInGroup, defaultLangCode)
chooseBaseSlug(postsInGroup, defaultLangCode) ==
    LET found == {i \in 1..Len(postsInGroup) :
                    Prop(postsInGroup[i], "language") = defaultLangCode}
    IN IF found # {}
       THEN postsInGroup[CHOOSE i \in found : \A j \in found : i <= j].slug
       ELSE postsInGroup[1].slug

-----------------------------------------------------------------------------
(* shared.js (paths) *)

Join(dir, name) == Append(dir, name)
Dirname(path) == SubSeq(path, 1, Len(path) - 1)

\* shared.buildPostPath(post): {output}/{slug}/index.md or {output}/{slug}.md
buildPostPath(post, cfg) ==
    IF cfg.postFolders
    THEN <<cfg.output, post.slug, "index.md">>
    ELSE <<cfg.output, post.slug \o ".md">>

\* shared.getFilenameFromUrl(url): the URL's final path segment
getFilenameFromUrl(url) == url.file

\* The directories of a path: every proper prefix.
Ancestors(path) == {SubSeq(path, 1, n) : n \in 1..(Len(path) - 1)}

\* Mutant: the existence test never finds the file.
ExistsNowhere(files, path) == FALSE

\* fs.existsSync(path): a file is there, or a directory holding one.
Exists(files, path) ==
    \/ path \in DOMAIN files
    \/ \E f \in DOMAIN files : path \in Ancestors(f)

-----------------------------------------------------------------------------
(* writer.js: the two planners *)

\* post.polylang.language || 'und'
LangOrUnd(post) ==
    IF post.polylang.language = Null \/ post.polylang.language = ""
    THEN "und" ELSE post.polylang.language

IsTranslationGroup(cfg, postsInGroup) == cfg.polylang /\ Len(postsInGroup) > 1

\* Destination of one translation of a multi-member group (step 3).
TranslationPath(post, postsInGroup, cfg) ==
    LET baseSlug == chooseBaseSlug(postsInGroup, cfg.defaultLanguage)
        fakeBasePost == [postsInGroup[1] EXCEPT !.slug = baseSlug]
        basePath == buildPostPath(fakeBasePost, cfg)
        lang == LangOrUnd(post)
    IN IF cfg.postFolders
       THEN Join(Dirname(basePath), "index." \o lang \o ".md")
       ELSE buildPostPath([post EXCEPT !.slug = baseSlug \o "." \o lang], cfg)

\* The Markdown destination the planner computes for a post of a group.
MarkdownPath(post, postsInGroup, cfg) ==
    IF IsTranslationGroup(cfg, postsInGroup)
    THEN TranslationPath(post, postsInGroup, cfg)
    ELSE buildPostPath(post, cfg)

\* Candidates of one group, in member order: what would be written where.
MarkdownGroupCandidates(postsInGroup, cfg) ==
    [i \in 1..Len(postsInGroup) |->
        [item |-> [kind |-> "post", id |-> postsInGroup[i].id, url |-> NoUrl],
         type |-> "post",
         destinationPath |-> MarkdownPath(postsInGroup[i], postsInGroup, cfg)]]

\* Mutant: the images directory is always next to the member's own path.
ImagesDirOfMember(post, postsInGroup, cfg) ==
    Join(Dirname(buildPostPath(post, cfg)), "images")

\* The images directory the image planner uses for a post of a group.
ImagesDir(post, postsInGroup, cfg) ==
    IF IsTranslationGroup(cfg, postsInGroup)
    THEN LET baseSlug == chooseBaseSlug(postsInGroup, cfg.defaultLanguage)
             groupFolder == IF cfg.postFolders THEN <<cfg.output, baseSlug>>
                            ELSE <<cfg.output>>
         IN Join(groupFolder, "images")
    ELSE Join(Dirname(buildPostPath(post, cfg)), "images")

ImagePostCandidates(post, postsInGroup, cfg) ==
    [j \in 1..Len(post.imageUrls) |->
        [item |-> [kind |-> "image", id |-> 0, url |-> post.imageUrls[j]],
         type |-> "image",
         destinationPath |-> Join(ImagesDir(post, postsInGroup, cfg),
                                  getFilenameFromUrl(post.imageUrls[j]))]]

RECURSIVE ImageGroupCandidatesFrom(_, _, _)
ImageGroupCandidatesFrom(i, postsInGroup, cfg) ==
    IF i > Len(postsInGroup) THEN <<>>
    ELSE ImagePostCandidates(postsInGroup[i], postsInGroup, cfg)
         \o ImageGroupCandidatesFrom(i + 1, postsInGroup, cfg)

GroupCandidates(kind, postsInGroup, cfg) ==
    IF kind = "md" THEN MarkdownGroupCandidates(postsInGroup, cfg)
    ELSE ImageGroupCandidatesFrom(1, postsInGroup, cfg)

\* for (const [groupKey, postsInGroup] of Object.entries(groupMap))
RECURSIVE Candidates(_, _, _)
Candidates(kind, gm, cfg) ==
    IF gm = <<>> THEN <<>>
    ELSE GroupCandidates(kind, Head(gm).posts, cfg) \o Candidates(kind, Tail(gm), cfg)

\* Mutant: both planners step by the write delay.
WriteDelayForAll(kind, cfg) == cfg.writeDelay

\* delay += shared.config.writeDelay / shared.config.requestDelay
PerKindDelay(kind, cfg) == IF kind = "md" THEN cfg.writeDelay ELSE cfg.requestDelay

\* Mutant: the planner emits a payload whatever is there.
SkipsNothing(files, cand) == FALSE

\* Whether the planner skips a candidate: its destination exists.
Skips(files, cand) == Exists(files, cand.destinationPath)

\* The loop body's bookkeeping, candidate by candidate: existingCount++ for
\* a destination that exists, else payloads.push({..., delay}) and
\* delay += the per-kind delay.
RECURSIVE PlanFrom(_, _, _, _)
PlanFrom(acc, cands, files, step) ==
    IF cands = <<>> THEN acc
    ELSE LET c == Head(cands)
             next == IF Skips(files, c)
                     THEN [acc EXCEPT !.existingCount = @ + 1]
                     ELSE [acc EXCEPT
                             !.payloads = Append(@, [item |-> c.item, type |-> c.type,
                                                    destinationPath |-> c.destinationPath,
                                                    delay |-> acc.delay]),
                             !.delay = @ + step]
         IN PlanFrom(next, Tail(cands), files, step)

\* The planning part of writeMarkdownFilesPromise / writeImageFilesPromise.
Plan(kind, gm, cfg, files) ==
    PlanFrom([payloads |-> <<>>, existingCount |-> 0, delay |-> 0],
             Candidates(kind, gm, cfg), files, PerKindDelay(kind, cfg))

-----------------------------------------------------------------------------
(* writer.js: the executor, processPayloadsPromise *)

Kinds == {"md", "img"}

\* One unit per payload: where its promise's callback stands.  "timer"
\* (setTimeout pending), "load" (awaiting loadFunc), "mkdir" and "write"
\* (in writeFile, awaiting fs.promises.mkdir, then fs.promises.writeFile),
\* then the state of the promise, "resolved" or "rejected".
NewUnit == "timer"

Settled(u) == u \in {"resolved", "rejected"}

\* try block, last two statements: logPayloadResult(payload); resolve()
OnSuccess(u) == "resolved"

\* catch (ex): logPayloadResult(payload, ex.message); reject()
OnError(u) == "rejected"

Max(a, b) == IF a >= b THEN a ELSE b

\* Mutant: every timer is set with no delay.
TimerDueAtOnce(payload) == 0

\* setTimeout(..., payload.delay): the time, counted from the call of the
\* executor, before which the callback does not run.
TimerDue(payload) == payload.delay

\* Mutant: one failure stops the launch of the units that follow.
TimerMayFireUnlessFailed(units, i) ==
    /\ units[i] = "timer"
    /\ \A j \in 1..(i - 1) : units[j] # "timer"
    /\ \A j \in 1..Len(units) : units[j] # "rejected"

\* Timers set in one synchronous pass with non-decreasing delays fire in the
\* order they were set: a unit's callback runs once all earlier ones have.
TimerMayFire(units, i) ==
    /\ units[i] = "timer"
    /\ \A j \in 1..(i - 1) : units[j] # "timer"

\* Mutant: Promise.all, which rejects at the first rejected promise.
AwaitAllFailFast(units) ==
    IF \E i \in 1..Len(units) : units[i] = "rejected" THEN "rejected"
    ELSE IF \A i \in 1..Len(units) : units[i] = "resolved" THEN "fulfilled"
    ELSE "pending"

\* await Promise.allSettled(promises): pending until every promise has
\* settled, then fulfilled whatever the outcomes.
AwaitAll(units) ==
    IF \A i \in 1..Len(units) : Settled(units[i]) THEN "fulfilled" ELSE "pending"

\* results.filter((result) => result.status === 'rejected').length
FailedCount(units) == Cardinality({i \in 1..Len(units) : units[i] = "rejected"})

\* What loadFunc(payload.item) returns: the document or the bytes of the item.
Loaded(item) == [item EXCEPT !.kind = IF item.kind = "post" THEN "markdown" ELSE "bytes"]

\* fs.promises.writeFile(destinationPath, data)
WriteTo(files, path, data) ==
    [p \in DOMAIN files \cup {path} |-> IF p = path THEN data ELSE files[p]]

\* Mutant: the Markdown phase is not awaited.
MayPlanAtOnce(kind, ph) == TRUE

\* writeFilesPromise: `await writeMarkdownFilesPromise` precedes the call of
\* writeImageFilesPromise.
MayPlan(kind, ph) == kind = "md" \/ ph["md"].pc = "returned"

\* A phase: pc is "idle" (not called), "exec" (awaiting the executor),
\* "returned" or "threw"; tree is the output tree its planner looked at;
\* clock is the time since the executor set the timers, as far as the
\* callbacks that have run tell it.
IdlePhase ==
    [pc |-> "idle", payloads |-> <<>>, existingCount |-> 0, units |-> <<>>,
     failedCount |-> 0, summary |-> "", tree |-> <<>>, clock |-> 0]

-----------------------------------------------------------------------------
(* Actions *)

\* parseFilePromise returns the enriched posts.
Enrich ==
    /\ pc = "parse"
    /\ posts' = parseFilePromise(items, termDesc)
    /\ pc' = "group"
    /\ UNCHANGED <<items, termDesc, config, groupMap, phase, fs, dirs, fs0, written>>

\* writeFilesPromise, up to the first await.
BuildGroups ==
    /\ pc = "group"
    /\ groupMap' = BuildGroupMap(config, posts)
    /\ pc' = "write"
    /\ UNCHANGED <<items, termDesc, config, posts, phase, fs, dirs, fs0, written>>

\* write{Markdown,Image}FilesPromise up to its await: plan, log the saving
\* message, and either return (no payloads) or create one promise per payload.
PlanPhase(k) ==
    /\ pc = "write"
    /\ phase[k].pc = "idle"
    /\ MayPlan(k, phase)
    /\ LET plan == Plan(k, groupMap, config, fs)
       IN phase' = [phase EXCEPT ![k] =
                      [pc |-> IF plan.payloads = <<>> THEN "returned" ELSE "exec",
                       payloads |-> plan.payloads,
                       existingCount |-> plan.existingCount,
                       units |-> [i \in 1..Len(plan.payloads) |-> NewUnit],
                       failedCount |-> 0,
                       summary |-> "",
                       tree |-> fs,
                       clock |-> 0]]
    /\ UNCHANGED <<items, termDesc, config, posts, groupMap, pc, fs, dirs, fs0, written>>

SetUnit(k, i, u) == phase' = [phase EXCEPT ![k].units[i] = u]

\* The setTimeout callback starts, its delay over: loadFunc(payload.item) is
\* called.
Start(k, i) ==
    /\ TimerMayFire(phase[k].units, i)
    /\ phase' = [phase EXCEPT ![k].units[i] = "load",
                              ![k].clock = Max(@, TimerDue(phase[k].payloads[i]))]
    /\ UNCHANGED <<items, termDesc, config, posts, groupMap, pc, fs, dirs, fs0, written>>

\* loadFunc returned the data: writeFile(destinationPath, data) is called
\* and calls mkdir.
LoadOk(k, i) ==
    /\ phase[k].units[i] = "load"
    /\ SetUnit(k, i, "mkdir")
    /\ UNCHANGED <<items, termDesc, config, posts, groupMap, pc, fs, dirs, fs0, written>>

\* loadFunc threw.
LoadFail(k, i) ==
    /\ phase[k].units[i] = "load"
    /\ SetUnit(k, i, OnError(phase[k].units[i]))
    /\ UNCHANGED <<items, termDesc, config, posts, groupMap, pc, fs, dirs, fs0, written>>

\* fs.promises.mkdir(path.dirname(destinationPath), { recursive: true })
\* returned: the directory and its missing ancestors are there; the file
\* write is called.
MkdirOk(k, i) ==
    /\ phase[k].units[i] = "mkdir"
    /\ SetUnit(k, i, "write")
    /\ dirs' = dirs \cup Ancestors(phase[k].payloads[i].destinationPath)
    /\ UNCHANGED <<items, termDesc, config, posts, groupMap, pc, fs, fs0, written>>

\* mkdir threw.
MkdirFail(k, i) ==
    /\ phase[k].units[i] = "mkdir"
    /\ SetUnit(k, i, OnError(phase[k].units[i]))
    /\ UNCHANGED <<items, termDesc, config, posts, groupMap, pc, fs, dirs, fs0, written>>

\* fs.promises.writeFile returned, and writeFile with it: the file is
\* written; the success line is logged and the promise resolved.
WriteOk(k, i) ==
    /\ phase[k].units[i] = "write"
    /\ SetUnit(k, i, OnSuccess(phase[k].units[i]))
    /\ fs' = WriteTo(fs, phase[k].payloads[i].destinationPath,
                     Loaded(phase[k].payloads[i].item))
    /\ written' = [written EXCEPT ![k] = @ \cup {phase[k].payloads[i].destinationPath}]
    /\ UNCHANGED <<items, termDesc, config, posts, groupMap, pc, dirs, fs0>>

\* fs.promises.writeFile threw.
WriteFail(k, i) ==
    /\ phase[k].units[i] = "write"
    /\ SetUnit(k, i, OnError(phase[k].units[i]))
    /\ UNCHANGED <<items, termDesc, config, posts, groupMap, pc, fs, dirs, fs0, written>>

\* The await of Promise.allSettled completes: count, print the summary,
\* return to the phase function, which returns too.
ExecutorReturns(k) ==
    /\ phase[k].pc = "exec"
    /\ AwaitAll(phase[k].units) # "pending"
    /\ phase' = [phase EXCEPT ![k] =
                    IF AwaitAll(phase[k].units) = "rejected"
                    THEN [@ EXCEPT !.pc = "threw"]
                    ELSE [@ EXCEPT !.pc = "returned",
                                   !.failedCount = FailedCount(phase[k].units),
                                   !.summary = IF FailedCount(phase[k].units) = 0
                                               THEN "Done, got them all!"
                                               ELSE "Done, but with "
                                                    \o ToString(FailedCount(phase[k].units))
                                                    \o " failed."]]
    /\ UNCHANGED <<items, termDesc, config, posts, groupMap, pc, fs, dirs, fs0, written>>

\* writeFilesPromise returns after `await writeImageFilesPromise`.
Finish ==
    /\ pc = "write"
    /\ phase["img"].pc = "returned"
    /\ pc' = "done"
    /\ UNCHANGED <<items, termDesc, config, posts, groupMap, phase, fs, dirs, fs0, written>>

UnitStep ==
    \E k \in Kinds : \E i \in 1..Len(phase[k].units) :
        \/ Start(k, i)
        \/ LoadOk(k, i)
        \/ LoadFail(k, i)
        \/ MkdirOk(k, i)
        \/ MkdirFail(k, i)
        \/ WriteOk(k, i)
        \/ WriteFail(k, i)

-----------------------------------------------------------------------------
(* Inputs *)

\* Default of --output.
OutputRoot == "output"

\* WordPress keeps the slugs of a site distinct: the slug names the post.
SlugOf(id) == "post-" \o ToString(id)

\* Sequences of at most MaxPosts items with distinct post IDs.
ItemSeqs(ItemSet) ==
    {s \in UNION {[1..n -> ItemSet] : n \in 0..MaxPosts} :
        \A i, j \in 1..Len(s) : i # j => s[i].id # s[j].id}

Ascending(s) == \A i, j \in 1..Len(s) : i < j => s[i].id < s[j].id

Urls == {[host |-> "https://example.org/uploads/", file |-> "x.png"]}

\* Content of a file an earlier run left.
Old == [kind |-> "old", id |-> 0, url |-> NoUrl]

\* Every destination the two planners can come to consider for the input.
CandidatePaths(its, td, cfg) ==
    LET gm == BuildGroupMap(cfg, parseFilePromise(its, td))
    IN {c.destinationPath : c \in Range(Candidates("md", gm, cfg))
                                   \cup Range(Candidates("img", gm, cfg))}

EmptyTree == [p \in {} |-> Old]

\* Output trees an earlier run can have left: any of the destinations.
Trees(its, td, cfg) ==
    UNION {[S -> {Old}] : S \in SUBSET CandidatePaths(its, td, cfg)}

InitOver(Items, TermSet, Descs, Cfgs, anyTree) ==
    /\ items \in Items
    /\ termDesc \in [TermSet -> Descs]
    /\ config \in Cfgs
    /\ fs0 \in IF anyTree THEN Trees(items, termDesc, config) ELSE {EmptyTree}
    /\ fs = fs0
    /\ dirs = UNION {Ancestors(f) : f \in DOMAIN fs0}
    /\ posts = <<>>
    /\ groupMap = <<>>
    /\ pc = "parse"
    /\ phase = [k \in Kinds |-> IdlePhase]
    /\ written = [k \in Kinds |-> {}]

InitWith(Items, Descs, Cfgs, anyTree) == InitOver(Items, Terms, Descs, Cfgs, anyTree)

ItemsOver(ids, languages, imageLists) ==
    {[id |-> i, slug |-> SlugOf(i), language |-> l, groupSlug |-> g, imageUrls |-> u] :
        i \in ids, l \in languages, g \in Terms \cup {Null}, u \in imageLists}

Configs(defaults) ==
    [polylang : BOOLEAN, postFolders : BOOLEAN, defaultLanguage : defaults,
     output : {OutputRoot}, writeDelay : {WriteDelay}, requestDelay : {RequestDelay}]

\* Inputs of the whole run: posts in ascending ID order, each with or without
\* an image, in the translation set or not; any part of the output already
\* there.
RunItems ==
    {s \in ItemSeqs(ItemsOver(1..MaxPosts, Langs \cup {Null}, {<<>>} \cup {<<u>> : u \in Urls})) :
        Ascending(s)}

RunEntries == <<<<"en", 1>>, <<"fr", 2>>>>

RunDescs == {Description(RunEntries)}

\* The language under which a translation map lists a post, if it does.
ListedLanguage(entries, id) ==
    IF \E n \in 1..Len(entries) : entries[n][2] = id
    THEN entries[CHOOSE n \in 1..Len(entries) : entries[n][2] = id][1]
    ELSE Null

\* The writer reads a post's language only inside a translation group, and
\* no translation metadata at all with polylang off: the runs are taken on
\* posts that carry the metadata only where it can be read.  A post of the
\* translation set has the language under which the set lists it, and none
\* if the set does not list it.
RunInit ==
    /\ InitWith(RunItems, RunDescs, Configs({"en"}), TRUE)
    /\ \A i \in 1..Len(items) :
          /\ items[i].language = IF items[i].groupSlug = Null THEN Null
                                  ELSE ListedLanguage(RunEntries, items[i].id)
          /\ ~config.polylang => items[i].groupSlug = Null

Init == RunInit

Next ==
    \/ Enrich
    \/ BuildGroups
    \/ \E k \in Kinds : PlanPhase(k)
    \/ UnitStep
    \/ \E k \in Kinds : ExecutorReturns(k)
    \/ Finish

Spec == Init /\ [][Next]_vars

\* Inputs of parsing, grouping and Markdown planning: posts in any order,
\* any language, translation terms of every shape, an empty output tree.
PlanItems == ItemSeqs(ItemsOver(PostIds, Langs \cup {Null}, {<<>>}))

PlanDescs ==
    {Unparsable, Description(<<>>), Description(<<<<"en", 1>>>>),
     Description(<<<<"en", 1>>, <<"fr", 2>>>>),
     Description(<<<<"en", 2>>, <<"fr", 10>>>>)}

\* writer.js reads shared.config.defaultLanguage, questions.js names the
\* option polylang-default-language: the value read is a language code or,
\* if the two names do not meet, undefined.
InitPlan == InitWith(PlanItems, PlanDescs, Configs(Langs \cup {Undefined}), FALSE)

NextPlan ==
    \/ Enrich
    \/ BuildGroups
    \/ PlanPhase("md")

SpecPlan == InitPlan /\ [][NextPlan]_vars

-----------------------------------------------------------------------------
(* Claims about a whole run (specification Spec) *)

Units(k) == phase[k].units
Payloads(k) == phase[k].payloads
UnitIds(k) == 1..Len(phase[k].units)
Destinations(k) == {Payloads(k)[i].destinationPath : i \in UnitIds(k)}

\* What the Markdown planner of a second run of the same export, with the
\* same configuration, plans against the output tree as it now is.
SecondMarkdownPlan ==
    Plan("md", BuildGroupMap(config, parseFilePromise(items, termDesc)), config, fs)

\* C1 as stated: once the Markdown phase of a run has planned its payloads
\* and the executor has processed them, a second planning of the same posts
\* under the same configuration yields zero payloads.
C1_RerunPlansNothing ==
    phase["md"].pc = "returned" => SecondMarkdownPlan.payloads = <<>>

\* C1 amended: after the Markdown phase of a run, a second planning plans a
\* payload only for a destination at which a unit of the first run failed
\* and none succeeded; when every unit of the first run succeeded it yields
\* zero payloads and counts every post as already saved.
C1_RerunPlansOnlyFailures ==
    phase["md"].pc = "returned" =>
        LET second == SecondMarkdownPlan
        IN /\ \A n \in 1..Len(second.payloads) :
                LET dest == second.payloads[n].destinationPath
                IN /\ \E i \in UnitIds("md") :
                        /\ Payloads("md")[i].destinationPath = dest
                        /\ Units("md")[i] = "rejected"
                   /\ \A i \in UnitIds("md") :
                        Payloads("md")[i].destinationPath = dest => Units("md")[i] # "resolved"
           /\ (\A i \in UnitIds("md") : Units("md")[i] = "resolved") =>
                /\ second.payloads = <<>>
                /\ second.existingCount = Len(items)

\* C1 witness: a translation group of two posts was planned on an empty
\* tree, both units succeeded, and the second planning is empty.
C1_Witness ==
    /\ phase["md"].pc = "returned"
    /\ config.polylang
    /\ Len(groupMap) = 1
    /\ Len(Payloads("md")) = 2
    /\ Payloads("md")[1].destinationPath # Payloads("md")[2].destinationPath
    /\ \A i \in UnitIds("md") : Units("md")[i] = "resolved"
    /\ SecondMarkdownPlan.payloads = <<>>

\* C2: in both planners, a candidate whose destination exists when the phase
\* is planned is counted as already saved, gets no payload, and the phase's
\* executor never writes its path: the file keeps its content to the end.
C2_ExistingOutputKept ==
    \A k \in Kinds :
        phase[k].pc # "idle" =>
            LET cands == Candidates(k, groupMap, config)
                there == {i \in 1..Len(cands) : Exists(phase[k].tree, cands[i].destinationPath)}
            IN /\ phase[k].existingCount = Cardinality(there)
               /\ \A i \in there :
                    LET dest == cands[i].destinationPath
                    IN /\ dest \notin Destinations(k)
                       /\ dest \notin written[k]
                       /\ dest \in DOMAIN phase[k].tree =>
                            dest \in DOMAIN fs /\ fs[dest] = phase[k].tree[dest]

\* C2 witness: a finished run in which each planner skipped an existing
\* destination and planned another one, which was then written.
C2_Witness ==
    /\ pc = "done"
    /\ \A k \in Kinds :
        /\ phase[k].existingCount >= 1
        /\ \E i \in UnitIds(k) : Units(k)[i] = "resolved"

\* C3 as stated: within one run no two payloads of the Markdown list, and
\* no two payloads of the image list, have the same destinationPath.
C3_DistinctDestinations ==
    \A k \in Kinds : \A i, j \in UnitIds(k) :
        i # j => Payloads(k)[i].destinationPath # Payloads(k)[j].destinationPath

\* No unit is held back by a sibling (the next timer can always fire, a
\* loading or writing unit can always complete), and when the executor
\* returns every unit has run to its own outcome, each successful one
\* having written its destinationPath.
C4_StateIsolation ==
    \A k \in Kinds :
        /\ \A i \in UnitIds(k) :
            /\ (Units(k)[i] = "timer" /\ \A j \in 1..(i - 1) : Units(k)[j] # "timer")
                    => ENABLED Start(k, i)
            /\ Units(k)[i] = "load" => ENABLED LoadOk(k, i) /\ ENABLED LoadFail(k, i)
            /\ Units(k)[i] = "mkdir" => ENABLED MkdirOk(k, i) /\ ENABLED MkdirFail(k, i)
            /\ Units(k)[i] = "write" => ENABLED WriteOk(k, i) /\ ENABLED WriteFail(k, i)
        /\ phase[k].pc = "returned" =>
            \A i \in UnitIds(k) :
                /\ Settled(Units(k)[i])
                /\ Units(k)[i] = "resolved" =>
                    /\ Payloads(k)[i].destinationPath \in DOMAIN fs
                    /\ Payloads(k)[i].destinationPath \in written[k]

\* The failure of a unit rejects that unit and changes nothing else.
C4_FailureIsLocal ==
    \A k \in Kinds : \A i \in UnitIds(k) :
        (LoadFail(k, i) \/ MkdirFail(k, i) \/ WriteFail(k, i)) =>
            /\ phase'[k].units[i] = "rejected"
            /\ \A j \in UnitIds(k) \ {i} : phase'[k].units[j] = Units(k)[j]
            /\ phase'[CHOOSE o \in Kinds : o # k] = phase[CHOOSE o \in Kinds : o # k]
            /\ fs' = fs
            /\ dirs' = dirs

\* C4: in processPayloadsPromise a failing loader or write is recorded for
\* its own payload only, every sibling is still launched and runs to its own
\* outcome under every interleaving, and every sibling whose loader and
\* write succeed has its file at its destinationPath.
C4_FailureIsolation == []C4_StateIsolation /\ [][C4_FailureIsLocal]_vars

\* C4 witness: the executor returned with the first unit failed and a later
\* sibling succeeded, its file written.
C4_Witness ==
    \E k \in Kinds :
        /\ phase[k].pc = "returned"
        /\ Len(Units(k)) >= 2
        /\ Units(k)[1] = "rejected"
        /\ \E i \in UnitIds(k) :
            /\ Units(k)[i] = "resolved"
            /\ Payloads(k)[i].destinationPath \in DOMAIN fs

\* The executor has not rejected; once it has returned every unit is
\* settled, successes and failures add up to the number of payloads, and the
\* reported count and summary line are those of the failed units.
C5_Accounted ==
    \A k \in Kinds :
        /\ phase[k].pc # "threw"
        /\ phase[k].pc = "returned" =>
            LET ok == {i \in UnitIds(k) : Units(k)[i] = "resolved"}
                ko == {i \in UnitIds(k) : Units(k)[i] = "rejected"}
            IN /\ ok \cup ko = UnitIds(k)
               /\ Len(Units(k)) = Len(Payloads(k))
               /\ Cardinality(ok) + phase[k].failedCount = Len(Payloads(k))
               /\ phase[k].failedCount = Cardinality(ko)
               /\ Len(Payloads(k)) > 0 =>
                    phase[k].summary =
                        IF ko = {} THEN "Done, got them all!"
                        ELSE "Done, but with " \o ToString(Cardinality(ko)) \o " failed."

\* A settled unit never changes again.
C5_SettlesOnce ==
    \A k \in Kinds : \A i \in UnitIds(k) :
        Settled(Units(k)[i]) => phase'[k].units[i] = Units(k)[i]

\* C5: processPayloadsPromise never rejects; it returns only when every
\* unit has settled, each exactly once, and successes and failures add up to
\* the number of payloads, the reported failed count and the summary line
\* being those of the units that failed.
C5_ExecutorSettles == []C5_Accounted /\ [][C5_SettlesOnce]_vars

\* C5 witness: the executor returned from a list of which exactly one unit
\* failed and another succeeded, with the summary for one failure.
C5_Witness ==
    \E k \in Kinds :
        /\ phase[k].pc = "returned"
        /\ phase[k].failedCount = 1
        /\ \E i \in UnitIds(k) : Units(k)[i] = "resolved"
        /\ phase[k].summary = "Done, but with 1 failed."

\* C6: nothing of the image phase (planning, a unit, a write) happens
\* before the Markdown phase has returned, all its units settled.
C6_PhasesSequential ==
    (phase["img"].pc # "idle" \/ written["img"] # {}) =>
        /\ phase["md"].pc = "returned"
        /\ \A i \in UnitIds("md") : Settled(Units("md")[i])

\* C6 witness: an image is being written after a Markdown phase in which a
\* unit failed.
C6_Witness ==
    /\ \E i \in UnitIds("img") : Units("img")[i] = "write"
    /\ \E i \in UnitIds("md") : Units("md")[i] = "rejected"

-----------------------------------------------------------------------------
(* Claims about grouping and path resolution (specification SpecPlan) *)

Grouped == pc \notin {"parse", "group"}

Members(e) == 1..Len(e.posts)
Entries == 1..Len(groupMap)

LanguageOf(post) == post.polylang.language

\* The base slug the specification gives a group: the slug of the member
\* whose language is the default language, else the first member's.
DefaultLanguageMembers(postsInGroup) ==
    {i \in 1..Len(postsInGroup) : LanguageOf(postsInGroup[i]) = config.defaultLanguage}

SpecifiedBaseSlug(postsInGroup) ==
    IF DefaultLanguageMembers(postsInGroup) # {}
    THEN postsInGroup[CHOOSE i \in DefaultLanguageMembers(postsInGroup) :
                        \A j \in DefaultLanguageMembers(postsInGroup) : i <= j].slug
    ELSE postsInGroup[1].slug

SpecifiedTranslationPath(post, postsInGroup) ==
    LET lang == IF LanguageOf(post) = Null THEN "und" ELSE LanguageOf(post)
        base == SpecifiedBaseSlug(postsInGroup)
    IN IF config.postFolders
       THEN <<config.output, base, "index." \o lang \o ".md">>
       ELSE <<config.output, base \o "." \o lang \o ".md">>

\* C7 as stated: with translation grouping on, every member of a group of
\* two or more posts is planned at {output}/{baseSlug}/index.{lang}.md
\* (per-post folders) or {output}/{baseSlug}.{lang}.md, baseSlug being the
\* slug of the group's default-language member (else of its first member)
\* and lang the member's language or "und".
C7_TranslationGroupPaths ==
    (config.polylang /\ phase["md"].pc # "idle") =>
        \A g \in Entries :
            Len(groupMap[g].posts) >= 2 =>
                \A m \in Members(groupMap[g]) :
                    \E i \in UnitIds("md") :
                        /\ Payloads("md")[i].item.id = groupMap[g].posts[m].id
                        /\ Payloads("md")[i].destinationPath =
                             SpecifiedTranslationPath(groupMap[g].posts[m], groupMap[g].posts)

\* C8 as stated: for a group of two or more posts, chooseBaseSlug called as
\* the writer calls it returns the slug of the member whose language is the
\* default language when there is one, and the first member's slug otherwise.
C8_BaseSlugOfDefaultLanguage ==
    (config.polylang /\ Grouped) =>
        \A g \in Entries :
            Len(groupMap[g].posts) >= 2 =>
                chooseBaseSlug(groupMap[g].posts, config.defaultLanguage)
                    = SpecifiedBaseSlug(groupMap[g].posts)

HasMap(post) ==
    ~post.polylang.translationMap.null /\ Len(post.polylang.translationMap.entries) > 0

MappedIds(post) == MapValues(post.polylang.translationMap)

Occurrences(seq, x) == Cardinality({i \in 1..Len(seq) : seq[i] = x})

\* key is the list of ids in ascending order of their decimal strings.
IsSortedListOf(key, ids) ==
    /\ Len(key) = Len(ids)
    /\ \A x \in Range(key) \cup Range(ids) : Occurrences(key, x) = Occurrences(ids, x)
    /\ \A i, j \in 1..Len(key) : i < j => ~LexLess(Digits(key[j]), Digits(key[i]))

\* Posts a and b are both listed under one key, the sorted list of the IDs
\* that a's translation map names.
TogetherUnderMapKey(a, b) ==
    \E g \in Entries :
        /\ IsSortedListOf(groupMap[g].key, MappedIds(posts[a]))
        /\ \E m \in Members(groupMap[g]) : groupMap[g].posts[m] = posts[a]
        /\ \E m \in Members(groupMap[g]) : groupMap[g].posts[m] = posts[b]

C10_GroupsPartitionPosts ==
    Grouped =>
        /\ \A i \in 1..Len(posts) :
             Cardinality({<<g, m>> \in Entries \X (1..Len(posts)) :
                            m \in Members(groupMap[g]) /\ groupMap[g].posts[m] = posts[i]}) = 1
        /\ \A g \in Entries : \A m \in Members(groupMap[g]) :
             groupMap[g].posts[m] \in Range(posts)
        /\ \A g \in Entries : Len(groupMap[g].posts) >= 1
        /\ \A g, h \in Entries : g # h => groupMap[g].key # groupMap[h].key
        /\ ~config.polylang =>
             \A g \in Entries :
                /\ Len(groupMap[g].posts) = 1
                /\ groupMap[g].key = <<groupMap[g].posts[1].id>>

\* C10 witness: grouping is on and two posts share one group.
C10_Witness ==
    /\ config.polylang
    /\ Grouped
    /\ Len(posts) >= 2
    /\ \E g \in Entries : Len(groupMap[g].posts) >= 2

\* The Markdown destination writeMarkdownFilesPromise computes for member m
\* of the group listed at position g.
ResolvedPath(g, m) ==
    MarkdownPath(groupMap[g].posts[m], groupMap[g].posts, config)

\* C11 as stated: the Markdown destinations computed for two distinct posts
\* of the collection differ, in every layout mode, with translation grouping
\* on and off.
C11_PathsInjective ==
    phase["md"].pc # "idle" =>
        \A g, h \in Entries : \A m \in Members(groupMap[g]) : \A n \in Members(groupMap[h]) :
            groupMap[g].posts[m].id # groupMap[h].posts[n].id
                => ResolvedPath(g, m) # ResolvedPath(h, n)

-----------------------------------------------------------------------------
(* Claims about the two planners (specification SpecPlanners) *)

\* The image of a post: one URL per post, its file name naming the post.
UrlOf(id) ==
    [host |-> "https://example.org/uploads/", file |-> "img-" \o ToString(id) \o ".png"]

\* Posts in any collection order, each with its one image, tagged with the
\* translation term or not; a tagged post carries a language.
PlannerItems ==
    ItemSeqs({[id |-> i, slug |-> SlugOf(i),
               language |-> IF g = Null THEN Null ELSE IF i = 1 THEN "en" ELSE "fr",
               groupSlug |-> g, imageUrls |-> <<UrlOf(i)>>] :
                 i \in PostIds, g \in Terms \cup {Null}})

\* Every layout, grouping on and off, each delay zero or its default.
PlannerConfigs ==
    [polylang : BOOLEAN, postFolders : BOOLEAN, defaultLanguage : {"en"},
     output : {OutputRoot}, writeDelay : {0, WriteDelay}, requestDelay : {0, RequestDelay}]

\* Planning of both phases against any part of the output already there.
\* The image planner is reached when the Markdown planner finds every
\* destination saved and returns at once.
InitPlanners == InitWith(PlannerItems, RunDescs, PlannerConfigs, TRUE)

NextPlanners ==
    \/ Enrich
    \/ BuildGroups
    \/ \E k \in Kinds : PlanPhase(k)

SpecPlanners == InitPlanners /\ [][NextPlanners]_vars

\* The folder that holds the Markdown file of member m of group g; for a
\* translation group, the folder of all its Markdown files.
MarkdownFolder(g, m) == Dirname(ResolvedPath(g, m))

\* Where the specification puts image j of member m of group g: in the
\* images/ subfolder of the Markdown folder, under the URL's file name.
SpecifiedImagePath(g, m, j) ==
    Join(Join(MarkdownFolder(g, m), "images"),
         getFilenameFromUrl(groupMap[g].posts[m].imageUrls[j]))

\* C12: once the image planner has run, every image of every post has been
\* considered at images/ under the folder of the post's Markdown file, which
\* for a translation group of two or more posts is one folder for all its
\* members (the first member's as much as any other's), and for a single or
\* non-grouped post is the post's own; no payload goes anywhere else.
C12_ImageDestinations ==
    phase["img"].pc # "idle" =>
        /\ \A g \in Entries : \A m \in Members(groupMap[g]) :
             /\ IsTranslationGroup(config, groupMap[g].posts)
                    => MarkdownFolder(g, m) = MarkdownFolder(g, 1)
             /\ ~IsTranslationGroup(config, groupMap[g].posts)
                    => MarkdownFolder(g, m) = Dirname(buildPostPath(groupMap[g].posts[m], config))
             /\ \A j \in 1..Len(groupMap[g].posts[m].imageUrls) :
                  \/ \E i \in UnitIds("img") :
                        /\ Payloads("img")[i].item.url = groupMap[g].posts[m].imageUrls[j]
                        /\ Payloads("img")[i].destinationPath = SpecifiedImagePath(g, m, j)
                  \/ Exists(phase["img"].tree, SpecifiedImagePath(g, m, j))
        /\ \A i \in UnitIds("img") :
             \E g \in Entries : \E m \in Members(groupMap[g]) :
                \E j \in 1..Len(groupMap[g].posts[m].imageUrls) :
                    /\ Payloads("img")[i].item.url = groupMap[g].posts[m].imageUrls[j]
                    /\ Payloads("img")[i].destinationPath = SpecifiedImagePath(g, m, j)

\* C12 witness: with per-post folders, the images of the two members of a
\* translation group are both planned in the images/ folder of the group,
\* which is not the second member's own folder.
C12_Witness ==
    /\ config.polylang
    /\ config.postFolders
    /\ Len(groupMap) = 1
    /\ Len(groupMap[1].posts) = 2
    /\ Len(Payloads("img")) = 2
    /\ \A i \in UnitIds("img") :
         Dirname(Payloads("img")[i].destinationPath)
            = <<config.output, groupMap[1].posts[1].slug, "images">>
    /\ groupMap[1].posts[2].slug # groupMap[1].posts[1].slug

-----------------------------------------------------------------------------
(* Claims about the steps of one unit (specification Spec) *)

\* The step from the current state to the next one takes unit i of phase k
\* from status a to status b.
Moves(k, i, a, b) == Units(k)[i] = a /\ phase'[k].units[i] = b

\* What one step does to unit i of phase k and to the output tree on its
\* behalf: the loader is called once the timer's delay is over; mkdir is
\* called once the loader has returned; the file is written once mkdir has
\* returned; success is reported by the step in which the write returns;
\* a failing loader leaves the tree alone and the unit reported as failed.
C13_UnitSteps ==
    \A k \in Kinds : \A i \in UnitIds(k) :
        LET dest == Payloads(k)[i].destinationPath
        IN /\ phase'[k].units[i] = "load" =>
                \/ Units(k)[i] = "load"
                \/ /\ Units(k)[i] = "timer"
                   /\ phase'[k].clock >= Payloads(k)[i].delay
           /\ phase'[k].units[i] = "mkdir" => Units(k)[i] \in {"load", "mkdir"}
           /\ phase'[k].units[i] = "write" => Units(k)[i] \in {"mkdir", "write"}
           /\ phase'[k].units[i] = "resolved" => Units(k)[i] \in {"write", "resolved"}
           /\ Moves(k, i, "mkdir", "write") => dirs' = dirs \cup Ancestors(dest)
           /\ Moves(k, i, "write", "resolved") =>
                /\ fs' = WriteTo(fs, dest, Loaded(Payloads(k)[i].item))
                /\ Ancestors(dest) \subseteq dirs
           /\ (Moves(k, i, "load", "rejected") \/ Moves(k, i, "timer", "load")
                    \/ Moves(k, i, "load", "mkdir")) =>
                fs' = fs /\ dirs' = dirs

\* Every change of the output tree is the mkdir or the file write of a unit
\* whose loader has returned.
C13_TreeSteps ==
    /\ dirs' # dirs => \E k \in Kinds : \E i \in UnitIds(k) : Moves(k, i, "mkdir", "write")
    /\ fs' # fs => \E k \in Kinds : \E i \in UnitIds(k) : Moves(k, i, "write", "resolved")

\* A payload reported as success has its file and directory; a unit not yet
\* past its loader has had no callback run later than its own delay allows.
C13_Reported ==
    \A k \in Kinds : \A i \in UnitIds(k) :
        /\ Units(k)[i] = "resolved" =>
              /\ Payloads(k)[i].destinationPath \in DOMAIN fs
              /\ Ancestors(Payloads(k)[i].destinationPath) \subseteq dirs
        /\ Units(k)[i] # "timer" => phase[k].clock >= Payloads(k)[i].delay

\* C13: in each unit of processPayloadsPromise the loader is invoked only
\* after the payload's delay has elapsed, the directory creation and the
\* file write at destinationPath happen only after the loader has returned
\* successfully, success is reported only after the write has completed, and
\* a unit whose loader fails creates no directory, writes no file and is
\* reported as failed.
C13_StepOrder == []C13_Reported /\ [][C13_UnitSteps /\ C13_TreeSteps]_vars

\* C13 witness: of two units with per-post folders, the first failed with
\* no directory made and no file written for it, the second, delayed, was
\* started when its delay was over and has written its file.
C13_Witness ==
    \E k \in Kinds :
        /\ config.postFolders
        /\ Len(Units(k)) = 2
        /\ Units(k) = <<"rejected", "resolved">>
        /\ Payloads(k)[2].delay > 0
        /\ phase[k].clock = Payloads(k)[2].delay
        /\ Payloads(k)[1].destinationPath \notin DOMAIN fs
        /\ Dirname(Payloads(k)[1].destinationPath) \notin dirs
        /\ Payloads(k)[2].destinationPath \in DOMAIN fs
        /\ Dirname(Payloads(k)[2].destinationPath) \in dirs

\* The post a payload is for: the post itself, or the post of the image.
PayloadPost(k, i) ==
    IF k = "md" THEN Payloads(k)[i].item.id
    ELSE CHOOSE id \in PostIds : UrlOf(id) = Payloads(k)[i].item.url

\* Position of a post in the collection, the group that holds it, and the
\* position in the collection of a group's first member.
PostPosition(id) == CHOOSE n \in 1..Len(posts) : posts[n].id = id

GroupOf(id) ==
    CHOOSE g \in Entries : \E m \in Members(groupMap[g]) : groupMap[g].posts[m].id = id

FirstPosition(g) ==
    CHOOSE n \in 1..Len(posts) :
        /\ GroupOf(posts[n].id) = g
        /\ \A o \in 1..(n - 1) : GroupOf(posts[o].id) # g

\* Post a comes before post b by group insertion order, then member order.
InsertionOrdered(a, b) ==
    \/ FirstPosition(GroupOf(a)) < FirstPosition(GroupOf(b))
    \/ GroupOf(a) = GroupOf(b) /\ PostPosition(a) < PostPosition(b)

\* Post a comes before post b by the order in which JavaScript enumerates the
\* keys of the group map (keys that are one ID first, by ascending number,
\* then the comma-joined keys by insertion), then member order.
EnumerationOrdered(a, b) ==
    LET ka == groupMap[GroupOf(a)].key
        kb == groupMap[GroupOf(b)].key
    IN \/ GroupOf(a) = GroupOf(b) /\ PostPosition(a) < PostPosition(b)
       \/ /\ GroupOf(a) # GroupOf(b)
          /\ \/ Len(ka) = 1 /\ Len(kb) = 1 /\ ka[1] < kb[1]
             \/ Len(ka) = 1 /\ Len(kb) > 1
             \/ /\ Len(ka) > 1
                /\ Len(kb) > 1
                /\ FirstPosition(GroupOf(a)) < FirstPosition(GroupOf(b))

ConfiguredDelay(k) == IF k = "md" THEN config.writeDelay ELSE config.requestDelay

\* C15: in each planner the payloads are the candidates whose destination
\* does not exist, the i-th of them (from 0) carries the delay i times the
\* write delay (Markdown) or the request delay (images), and the delays are
\* non-decreasing in creation order, strictly increasing for a positive
\* per-kind delay.
C15_StaggerDelays ==
    \A k \in Kinds :
        phase[k].pc # "idle" =>
            LET cands == Candidates(k, groupMap, config)
                fresh == {c \in 1..Len(cands) :
                            ~Exists(phase[k].tree, cands[c].destinationPath)}
            IN /\ Len(Payloads(k)) = Cardinality(fresh)
               /\ phase[k].existingCount = Len(cands) - Cardinality(fresh)
               /\ \A i \in UnitIds(k) :
                    /\ Payloads(k)[i].delay = (i - 1) * ConfiguredDelay(k)
                    /\ i > 1 =>
                        /\ Payloads(k)[i - 1].delay <= Payloads(k)[i].delay
                        /\ ConfiguredDelay(k) > 0 =>
                             Payloads(k)[i - 1].delay < Payloads(k)[i].delay

\* C15 witness: the image planner, with the default request delay and a
\* write delay of zero, emitted two payloads, delayed by 0 and by 500 ms.
C15_Witness ==
    /\ config.requestDelay = RequestDelay
    /\ config.writeDelay = 0
    /\ Len(Payloads("img")) = 2
    /\ Payloads("img")[1].delay = 0
    /\ Payloads("img")[2].delay = RequestDelay

-----------------------------------------------------------------------------
(* Claims about malformed translation metadata (specification SpecTerms) *)

TwoTerms == {"pll_t1", "pll_t2"}

\* Descriptions of a term: unparsable, or one of three translation maps.
TermsDescs ==
    {Unparsable, Description(<<<<"en", 1>>>>), Description(RunEntries),
     Description(<<<<"en", 2>>, <<"fr", 10>>>>)}

\* Posts in any collection order, each tagged with one of two terms or none.
TermsItems ==
    ItemSeqs({[id |-> i, slug |-> SlugOf(i), language |-> Null, groupSlug |-> g,
               imageUrls |-> <<>>] : i \in PostIds, g \in TwoTerms \cup {Null}})

TermsConfigs ==
    [polylang : {TRUE}, postFolders : BOOLEAN, defaultLanguage : {"en"},
     output : {OutputRoot}, writeDelay : {WriteDelay}, requestDelay : {RequestDelay}]

InitTerms == InitOver(TermsItems, TwoTerms, TermsDescs, TermsConfigs, FALSE)

NextTerms ==
    \/ Enrich
    \/ BuildGroups

SpecTerms == InitTerms /\ [][NextTerms]_vars

\* The post refers to a term whose description could not be parsed.
RefersToUnparsable(post) ==
    /\ post.polylang.groupSlug # Null
    /\ ~termDesc[post.polylang.groupSlug].parsable

\* The post is grouped as usual: under the sorted list of the IDs of its
\* map, with every post that carries the same map.
GroupedAsUsual(n) ==
    \E g \in Entries :
        /\ IsSortedListOf(groupMap[g].key, MappedIds(posts[n]))
        /\ \A b \in 1..Len(posts) :
             posts[b].polylang.translationMap = posts[n].polylang.translationMap
                => \E m \in Members(groupMap[g]) : groupMap[g].posts[m] = posts[b]

\* C16 as stated: parsing goes on past a term that cannot be parsed; every
\* post that refers to such a term gets no translation map and is alone in
\* a group keyed by its own ID; posts of other terms are grouped as usual.
C16_UnparsableTermSingleton ==
    Grouped =>
        \A n \in 1..Len(posts) :
            /\ RefersToUnparsable(posts[n]) =>
                 /\ posts[n].polylang.translationMap = NullMap
                 /\ \E g \in Entries :
                      /\ groupMap[g].key = <<posts[n].id>>
                      /\ groupMap[g].posts = <<posts[n]>>
            /\ HasMap(posts[n]) => GroupedAsUsual(n)

\* C16 amended: parsing goes on past a term that cannot be parsed; every
\* post that refers to such a term gets no translation map and is in the
\* group keyed by its own ID, where it is alone unless other posts carry a
\* map whose only entry is that ID; posts of other terms are grouped as usual.
C16_UnparsableTermOwnKey ==
    Grouped =>
        \A n \in 1..Len(posts) :
            /\ RefersToUnparsable(posts[n]) =>
                 /\ posts[n].polylang.translationMap = NullMap
                 /\ \E g \in Entries :
                      /\ groupMap[g].key = <<posts[n].id>>
                      /\ \E m \in Members(groupMap[g]) : groupMap[g].posts[m] = posts[n]
                      /\ \A m \in Members(groupMap[g]) :
                           \/ groupMap[g].posts[m] = posts[n]
                           \/ /\ HasMap(groupMap[g].posts[m])
                              /\ MappedIds(groupMap[g].posts[m]) = <<posts[n].id>>
                 /\ (\A b \in 1..Len(posts) :
                        HasMap(posts[b]) => MappedIds(posts[b]) # <<posts[n].id>>)
                      => \E g \in Entries : groupMap[g].posts = <<posts[n]>>
            /\ HasMap(posts[n]) => GroupedAsUsual(n)

\* C16 witness: post 1 refers to a term that cannot be parsed and is alone
\* under its own ID; post 2 carries the map of the other term and is under
\* the key of that map.
C16_Witness ==
    /\ Grouped
    /\ Len(posts) = 2
    /\ \E n, o \in 1..Len(posts) :
        /\ posts[n].id = 1
        /\ RefersToUnparsable(posts[n])
        /\ \E g \in Entries : groupMap[g].key = <<1>> /\ groupMap[g].posts = <<posts[n]>>
        /\ posts[o].id = 2
        /\ HasMap(posts[o])
        /\ \E g \in Entries : groupMap[g].key = <<10, 2>> /\ groupMap[g].posts = <<posts[o]>>

====
